---- MODULE Spec2Model ----
(***************************************************************************)
(* A model of the Pack layout engine of toga                               *)
(* (core/src/toga/style/pack.py): Pack.layout, Pack._layout_node,          *)
(* Pack._layout_row_children and Pack._layout_column_children.             *)
(*                                                                         *)
(* Numbers.  Styles, intrinsic sizes and the stored content sizes are      *)
(* integers.  The allocations handed down the tree are Python numbers that *)
(* stop being integers as soon as a flex quantum is computed with "/"; they *)
(* are modelled as exact fractions <<numerator, denominator>> in lowest    *)
(* terms with a positive denominator.  int(x) is truncation toward zero.   *)
(* Flex weights are drawn from the integers.                               *)
(***************************************************************************)
EXTENDS Integers, Sequences, FiniteSets, TLC

\* ----------------------------------------------------------------------
\* Constants of pack.py
\* ----------------------------------------------------------------------
NONE == <<>>
ROW == "row"
COLUMN == "column"
LTR == "ltr"
RTL == "rtl"
START == "start"
END == "end"
CENTER == "center"
Unset == "unset"

VISIBLE == "visible"

HIDDEN == "hidden"

LEFT == "left"

RIGHT == "right"

\* ----------------------------------------------------------------------
\* Exact arithmetic on fractions
\* ----------------------------------------------------------------------
RECURSIVE Gcd(_, _)
Gcd(a, b) ==
    IF b = 0 THEN a ELSE Gcd(b, a % b)

Abs(x) ==
    IF x < 0 THEN -x ELSE x

Frac(n, d) ==
    LET g == Gcd(Abs(n), Abs(d))
        s == IF d < 0 THEN -1 ELSE 1
    IN  IF n = 0 THEN <<0, 1>> ELSE <<(s * n) \div g, (s * d) \div g>>

Num(k) ==
    <<k, 1>>

FAdd(a, b) ==
    Frac(a[1] * b[2] + b[1] * a[2], a[2] * b[2])

FSub(a, b) ==
    Frac(a[1] * b[2] - b[1] * a[2], a[2] * b[2])

FMul(a, b) ==
    Frac(a[1] * b[1], a[2] * b[2])

FDiv(a, b) ==
    Frac(a[1] * b[2], a[2] * b[1])

FLess(a, b) ==
    a[1] * b[2] < b[1] * a[2]

FLeq(a, b) ==
    a[1] * b[2] <= b[1] * a[2]

FMax(a, b) ==
    IF FLess(a, b) THEN b ELSE a

IntMax(a, b) ==
    IF a < b THEN b ELSE a

\* Python's int(): truncation toward zero.
ToInt(a) ==
    IF a[1] >= 0 THEN a[1] \div a[2] ELSE -((-a[1]) \div a[2])

\* ----------------------------------------------------------------------
\* State
\* ----------------------------------------------------------------------
VARIABLES
    children,      \* node -> sequence of child nodes (layout order)
    style,         \* node -> style record
    intrinsic,     \* node -> [width, height]: NONE, <<"fixed", v>> or <<"atleast", v>>
    layout,        \* node -> LayoutResult (node.layout)
    calls,         \* node -> the arguments of each _layout_node call of the last layout()
    rets,          \* node -> what the children procedure returned in the last layout()
    viewport,      \* the viewport of the last layout() call, NONE before the first
    prevViewport,  \* the viewport of the layout() call before the last one
    prevLayout,    \* the LayoutResults left by the layout() call before the last one
    numLayouts,    \* the number of layout() calls made
    applicator,    \* node -> whether the node's style has an applicator (self._applicator)
    applied,       \* the arguments of the last apply() call, NONE before the first
    sink,          \* the calls the last apply() made on the applicator, in order
    writes,        \* the writes of the last layout() to LayoutResults, in order:
                   \* <<"size", n>>, <<"left", n>> or <<"top", n>>
    changed        \* the last set or delete of a style property: node, op, name, value

vars == <<children, style, intrinsic, layout, calls, rets, viewport, prevViewport,
          prevLayout, numLayouts, applicator, applied, sink, writes,
          changed>>

Nodes == DOMAIN children

Root == 1

\* BaseBox as constructed: every field of a fresh LayoutResult is 0.
EmptyBox ==
    [content_width |-> 0, content_height |-> 0,
     min_content_width |-> 0, min_content_height |-> 0,
     content_top |-> Num(0), content_left |-> Num(0),
     content_bottom |-> 0, content_right |-> 0]

\* The entry of rets for a node whose children procedure has not been called:
\* its return values, the flex accounting it went through (flex_total
\* after pass 1, flex_left after pass 1a, and the quantum pass 2 used), and
\* what its parent's remaining_width (remaining_height) was before and after
\* the parent's pass 1 went over the node.
NoReturn ==
    [min_width |-> 0, width |-> Num(0), min_height |-> 0, height |-> Num(0),
     flex_total |-> 0, flex_left |-> 0, quantum |-> Num(0),
     remaining_before |-> Num(0), remaining_after |-> Num(0)]

\* hasattr(intrinsic, "value"): the at_least wrapper.
HasValue(i) ==
    i # NONE /\ i[1] = "atleast"

IntrinsicValue(i) ==
    i[2]

\* ----------------------------------------------------------------------
\* Style record
\* ----------------------------------------------------------------------

\* Pack.__getattribute__ for "align_items": when the paired deprecated
\* "alignment" is the one that is stored, align_items is computed from it.
AlignItems(s) ==
    IF s.alignment # Unset
    THEN IF s.alignment = CENTER THEN CENTER
         ELSE IF s.direction = ROW
              THEN IF s.alignment = "top" THEN START
                   ELSE IF s.alignment = "bottom" THEN END
                   ELSE Unset
              ELSE IF s.alignment = "left"
                   THEN (IF s.text_direction = LTR THEN START ELSE END)
                   ELSE IF s.alignment = "right"
                        THEN (IF s.text_direction = RTL THEN START ELSE END)
                        ELSE Unset
    ELSE s.align_items

ALIGNMENT == "alignment"

ALIGN_ITEMS == "align_items"

TOP == "top"

BOTTOM == "bottom"

\* Pack.__getattribute__ for "alignment": when the paired "align_items" is
\* the one that is stored, alignment is computed from it.
Alignment(s) ==
    IF s.align_items # Unset
    THEN IF s.align_items = START
         THEN (IF s.direction = COLUMN
               THEN (IF s.text_direction = LTR THEN LEFT ELSE RIGHT)
               ELSE TOP)
         ELSE IF s.align_items = END
         THEN (IF s.direction = COLUMN
               THEN (IF s.text_direction = LTR THEN RIGHT ELSE LEFT)
               ELSE BOTTOM)
         ELSE CENTER
    ELSE s.alignment

\* The value a property has when it is not set.
Initial(name) ==
    CASE name = "direction" -> ROW
      [] name = "text_direction" -> LTR
      [] name \in {"margin_top", "margin_right", "margin_bottom", "margin_left"} -> 0
      [] OTHER -> Unset

\* The values a property accepts.
Choices(name) ==
    CASE name = ALIGN_ITEMS -> {START, CENTER, END}
      [] name = ALIGNMENT -> {LEFT, RIGHT, TOP, BOTTOM, CENTER}
      [] name = "direction" -> {ROW, COLUMN}
      [] name = "text_direction" -> {RTL, LTR}
      [] OTHER -> {0, 2}

\* Pack._update_property_name: a deprecated name gives its replacement.
UpdatePropertyName(name) ==
    CASE name = "padding_top" -> "margin_top"
      [] name = "padding_right" -> "margin_right"
      [] name = "padding_bottom" -> "margin_bottom"
      [] name = "padding_left" -> "margin_left"
      [] OTHER -> name

\* The property setter and deleter of the base class: a value that is not
\* one of the choices is refused and nothing is stored.
SuperSetAttr(s, name, value) ==
    IF value \in Choices(name) THEN [s EXCEPT ![name] = value] ELSE s

SuperDelAttr(s, name) ==
    [s EXCEPT ![name] = Initial(name)]

\* Variant: setting one of the pair leaves the other as it is.
SetAttrKeepsOther(s, name, value) ==
    SuperSetAttr(s, UpdatePropertyName(name), value)

\* Pack.__setattr__ on the style record s.
SetAttr(s, name, value) ==
    SuperSetAttr(IF name = ALIGN_ITEMS THEN SuperDelAttr(s, ALIGNMENT)
                 ELSE IF name = ALIGNMENT THEN SuperDelAttr(s, ALIGN_ITEMS)
                 ELSE s,
                 UpdatePropertyName(name), value)

\* Pack.__delattr__ on the style record s.
DelAttr(s, name) ==
    SuperDelAttr(IF name = ALIGN_ITEMS THEN SuperDelAttr(s, ALIGNMENT)
                 ELSE IF name = ALIGNMENT THEN SuperDelAttr(s, ALIGN_ITEMS)
                 ELSE s,
                 UpdatePropertyName(name))

\* name.replace("-", "_") on the names used with the item syntax.
Underscored(name) ==
    CASE name = "align-items" -> ALIGN_ITEMS
      [] name = "text-direction" -> "text_direction"
      [] name = "padding-left" -> "padding_left"
      [] OTHER -> name

\* ----------------------------------------------------------------------
\* _layout_node
\* ----------------------------------------------------------------------

\* "Establish available width" / "Establish available height": the same code
\* on either axis.  explicit is style.width (height), intr the intrinsic size
\* on that axis, alloc the allocation, m1 and m2 the two margins of the axis.
AvailableSizeNoClamp(explicit, intr, alloc, m1, m2) ==
    IF explicit # NONE
    THEN [avail |-> Num(explicit[1]), min |-> explicit[1]]
    ELSE LET a0 == FSub(alloc, Num(m1 + m2))
         IN  IF intr # NONE
             THEN IF HasValue(intr)
                  THEN [avail |-> FMax(a0, Num(IntrinsicValue(intr))),
                        min |-> IntrinsicValue(intr)]
                  ELSE [avail |-> Num(IntrinsicValue(intr)),
                        min |-> IntrinsicValue(intr)]
             ELSE [avail |-> a0, min |-> 0]

AvailableSizeIgnoreMargins(explicit, intr, alloc, m1, m2) ==
    IF explicit # NONE
    THEN [avail |-> Num(explicit[1]), min |-> explicit[1]]
    ELSE LET a0 == FMax(Num(0), alloc)
         IN  IF intr # NONE
             THEN IF HasValue(intr)
                  THEN [avail |-> FMax(a0, Num(IntrinsicValue(intr))),
                        min |-> IntrinsicValue(intr)]
                  ELSE [avail |-> Num(IntrinsicValue(intr)),
                        min |-> IntrinsicValue(intr)]
             ELSE [avail |-> a0, min |-> 0]

AvailableSizeNoGrow(explicit, intr, alloc, m1, m2) ==
    IF explicit # NONE
    THEN [avail |-> Num(explicit[1]), min |-> explicit[1]]
    ELSE LET a0 == FMax(Num(0), FSub(alloc, Num(m1 + m2)))
         IN  IF intr # NONE
             THEN IF HasValue(intr)
                  THEN [avail |-> a0, min |-> IntrinsicValue(intr)]
                  ELSE [avail |-> Num(IntrinsicValue(intr)),
                        min |-> IntrinsicValue(intr)]
             ELSE [avail |-> a0, min |-> 0]

\* Variant: a fixed intrinsic size grows with the allocation as a flexible
\* one does.
AvailableSizeFixedGrows(explicit, intr, alloc, m1, m2) ==
    IF explicit # NONE
    THEN [avail |-> Num(explicit[1]), min |-> explicit[1]]
    ELSE LET a0 == FMax(Num(0), FSub(alloc, Num(m1 + m2)))
         IN  IF intr # NONE
             THEN [avail |-> FMax(a0, Num(IntrinsicValue(intr))),
                   min |-> IntrinsicValue(intr)]
             ELSE [avail |-> a0, min |-> 0]

AvailableSize(explicit, intr, alloc, m1, m2) ==
    IF explicit # NONE
    THEN [avail |-> Num(explicit[1]), min |-> explicit[1]]
    ELSE LET a0 == FMax(Num(0), FSub(alloc, Num(m1 + m2)))
         IN  IF intr # NONE
             THEN IF HasValue(intr)
                  THEN [avail |-> FMax(a0, Num(IntrinsicValue(intr))),
                        min |-> IntrinsicValue(intr)]
                  ELSE [avail |-> Num(IntrinsicValue(intr)),
                        min |-> IntrinsicValue(intr)]
             ELSE [avail |-> a0, min |-> 0]

\* "If an explicit width/height was given, that specification overrides the
\* width/height evaluated by the layout of children".
ExplicitOverrideSizeOnly(explicit, size, min) ==
    IF explicit # NONE
    THEN [size |-> Num(explicit[1]), min |-> min]
    ELSE [size |-> size, min |-> min]

ExplicitOverride(explicit, size, min) ==
    IF explicit # NONE
    THEN [size |-> Num(explicit[1]), min |-> explicit[1]]
    ELSE [size |-> size, min |-> min]

RECURSIVE LayoutNode(_, _, _, _, _, _)
RECURSIVE LayoutRowChildren(_, _, _, _, _, _)
RECURSIVE LayoutColumnChildren(_, _, _, _, _, _)

\* The store st holds node.layout of every node (lay) and the record of the
\* calls made (calls, rets).  Every read of child.layout is a read of st.lay.

\* The layout of the children, or the available size of a node without any.
\* W and H are the available width and height with their minimums.
LayoutNodeChildren(st, node, W, H, use_all_width, use_all_height) ==
    IF children[node] # <<>>
    THEN IF style[node].direction = COLUMN
         THEN LayoutColumnChildren(st, node, W.avail, H.avail,
                                   use_all_width, use_all_height)
         ELSE LayoutRowChildren(st, node, W.avail, H.avail,
                                use_all_width, use_all_height)
    ELSE [st |-> st, min_width |-> W.min, width |-> W.avail,
          min_height |-> H.min, height |-> H.avail]

\* The explicit size overrides what the children procedure returned (r), and
\* the result is written to node.layout.
LayoutNodeWrite(node, r, call) ==
    LET s == style[node]
        fw == ExplicitOverride(s.width, r.width, r.min_width)
        fh == ExplicitOverride(s.height, r.height, r.min_height)
    IN  [lay |-> [r.st.lay EXCEPT ![node] =
                    [@ EXCEPT !.content_width = ToInt(fw.size),
                              !.content_height = ToInt(fh.size),
                              !.min_content_width = fw.min,
                              !.min_content_height = fh.min]],
         calls |-> [r.st.calls EXCEPT ![node] = Append(@, call)],
         writes |-> Append(r.st.writes, <<"size", node>>),
         rets |-> IF children[node] # <<>>
                  THEN [r.st.rets EXCEPT ![node] =
                          [@ EXCEPT !.min_width = r.min_width, !.width = r.width,
                                    !.min_height = r.min_height, !.height = r.height]]
                  ELSE r.st.rets]

LayoutNode(st, node, alloc_width, alloc_height, use_all_width, use_all_height) ==
    LayoutNodeWrite(node,
        LayoutNodeChildren(st, node,
            AvailableSize(style[node].width, intrinsic[node].width, alloc_width,
                          style[node].margin_left, style[node].margin_right),
            AvailableSize(style[node].height, intrinsic[node].height, alloc_height,
                          style[node].margin_top, style[node].margin_bottom),
            use_all_width, use_all_height),
        [alloc_width |-> alloc_width, alloc_height |-> alloc_height,
         use_all_width |-> use_all_width, use_all_height |-> use_all_height])

\* ----------------------------------------------------------------------
\* _layout_row_children
\* ----------------------------------------------------------------------

\* The end of one iteration of pass 1: the running totals take the child's
\* margin box.  acc = [st, flex_total, min_flex, size, min_size, remaining].
Pass1Totals(acc, st, flex_total, min_flex, m1, m2, content, min_content) ==
    [st |-> st,
     flex_total |-> flex_total,
     min_flex |-> min_flex,
     size |-> acc.size + (m1 + content + m2),
     min_size |-> acc.min_size + (m1 + min_content + m2),
     remaining |-> FSub(acc.remaining, Num(m1 + content + m2))]

\* A deferred flex child with no intrinsic size: "use 0 as the minimum".
DeferredContentStale(old) ==
    old

DeferredContent(old) ==
    0

\* The record, in the store, of the remaining space around one iteration of
\* pass 1: before is the value the iteration started with, acc its outcome.
NoteRemaining(acc, child, before) ==
    [acc EXCEPT !.st.rets[child] = [@ EXCEPT !.remaining_before = before,
                                             !.remaining_after = acc.remaining]]

\* Pass 1, one child.
RowPass1Child(acc, child, available_height) ==
    LET cs == style[child]
        iw == intrinsic[child].width
        here == LayoutNode(acc.st, child, acc.remaining, available_height,
                           FALSE, cs.direction = ROW)
        zero == LayoutNode(acc.st, child, Num(0), available_height,
                           FALSE, cs.direction = ROW)
    IN  IF cs.width # NONE
        THEN Pass1Totals(acc, here, acc.flex_total, acc.min_flex,
                         cs.margin_left, cs.margin_right,
                         here.lay[child].content_width,
                         here.lay[child].content_width)
        ELSE IF iw # NONE
        THEN IF HasValue(iw)
             THEN IF cs.flex # 0
                  THEN Pass1Totals(acc, acc.st, acc.flex_total + cs.flex,
                                   acc.min_flex + (cs.margin_left + IntrinsicValue(iw)
                                                   + cs.margin_right),
                                   cs.margin_left, cs.margin_right,
                                   IntrinsicValue(iw), IntrinsicValue(iw))
                  ELSE Pass1Totals(acc, zero, acc.flex_total, acc.min_flex,
                                   cs.margin_left, cs.margin_right,
                                   zero.lay[child].content_width,
                                   zero.lay[child].content_width)
             ELSE Pass1Totals(acc, here, acc.flex_total, acc.min_flex,
                              cs.margin_left, cs.margin_right,
                              here.lay[child].content_width,
                              here.lay[child].content_width)
        ELSE IF cs.flex # 0
             THEN Pass1Totals(acc, acc.st, acc.flex_total + cs.flex, acc.min_flex,
                              cs.margin_left, cs.margin_right,
                              DeferredContent(acc.st.lay[child].content_width),
                              DeferredContent(acc.st.lay[child].min_content_width))
             ELSE Pass1Totals(acc, here, acc.flex_total, acc.min_flex,
                              cs.margin_left, cs.margin_right,
                              here.lay[child].content_width,
                              here.lay[child].min_content_width)

RECURSIVE RowPass1(_, _, _, _)
RowPass1(acc, kids, i, available_height) ==
    IF i > Len(kids)
    THEN acc
    ELSE RowPass1(NoteRemaining(RowPass1Child(acc, kids[i], available_height),
                                kids[i], acc.remaining),
                  kids, i + 1, available_height)

\* quantum = (remaining + min_flex) / flex_total when flex_total > 0, else 0.
QuantumUnzeroed(remaining, min_flex, flex_total) ==
    IF flex_total > 0
    THEN FDiv(FAdd(remaining, Num(min_flex)), Num(flex_total))
    ELSE FAdd(remaining, Num(min_flex))

Quantum(remaining, min_flex, flex_total) ==
    IF flex_total > 0
    THEN FDiv(FAdd(remaining, Num(min_flex)), Num(flex_total))
    ELSE Num(0)

\* The record of the flex accounting of node in the store.
NoteFlex(st, node, flex_total, flex_left, quantum) ==
    [st EXCEPT !.rets[node] = [@ EXCEPT !.flex_total = flex_total,
                                        !.flex_left = flex_left,
                                        !.quantum = quantum]]

\* Pass 1a, one child: a flex child whose flexible intrinsic size is more than
\* its ideal share leaves the flex accounting.  fa = [flex_total, min_flex].
Pass1aChildKeepsAll(fa, flex, intr, m1, m2, quantum) ==
    fa

Pass1aChild(fa, flex, intr, m1, m2, quantum) ==
    IF flex # 0 /\ intr # NONE /\ HasValue(intr)
       /\ FLess(FMul(quantum, Num(flex)), Num(IntrinsicValue(intr)))
    THEN [flex_total |-> fa.flex_total - flex,
          min_flex |-> fa.min_flex - (m1 + IntrinsicValue(intr) + m2)]
    ELSE fa

RECURSIVE RowPass1a(_, _, _, _)
RowPass1a(fa, kids, i, quantum) ==
    IF i > Len(kids)
    THEN fa
    ELSE LET cs == style[kids[i]]
         IN  RowPass1a(Pass1aChild(fa, cs.flex, intrinsic[kids[i]].width,
                                   cs.margin_left, cs.margin_right, quantum),
                       kids, i + 1, quantum)

\* The allocation of a pass-2 child with a flexible intrinsic size.
FlexIntrinsicAllocNoShare(flex, value, m1, m2, quantum) ==
    Num(m1 + value + m2)

FlexIntrinsicAlloc(flex, value, m1, m2, quantum) ==
    FMax(Num(m1 + value + m2), FMul(quantum, Num(flex)))

\* The allocation of a pass-2 child with no intrinsic size.
FlexAllocEqualShares(flex, m1, m2, quantum) ==
    IF quantum # Num(0) THEN quantum ELSE Num(m1 + m2)

FlexAlloc(flex, m1, m2, quantum) ==
    IF quantum # Num(0) THEN FMul(quantum, Num(flex)) ELSE Num(m1 + m2)

\* Pass 2, one child.  acc = [st, size, min_size].
\* Variant: pass 2 lays out every flex child without an explicit width, the
\* ones with a fixed intrinsic width included.
RowPass2ChildAgain(acc, child, available_height, quantum) ==
    LET cs == style[child]
        iw == intrinsic[child].width
    IN  IF cs.width # NONE
        THEN acc
        ELSE IF cs.flex # 0
        THEN [acc EXCEPT !.st =
                LayoutNode(acc.st, child,
                           IF iw # NONE
                           THEN FlexIntrinsicAlloc(cs.flex, IntrinsicValue(iw),
                                    cs.margin_left, cs.margin_right, quantum)
                           ELSE FlexAlloc(cs.flex, cs.margin_left, cs.margin_right,
                                          quantum),
                           available_height, TRUE, cs.direction = ROW)]
        ELSE acc

RowPass2Child(acc, child, available_height, quantum) ==
    LET cs == style[child]
        iw == intrinsic[child].width
    IN  IF cs.width # NONE
        THEN acc
        ELSE IF cs.flex # 0
        THEN IF iw # NONE
             THEN IF HasValue(iw)
                  THEN LET st1 == LayoutNode(acc.st, child,
                                      FlexIntrinsicAlloc(cs.flex, IntrinsicValue(iw),
                                          cs.margin_left, cs.margin_right, quantum),
                                      available_height, TRUE, cs.direction = ROW)
                       IN  [st |-> st1,
                            size |-> acc.size - IntrinsicValue(iw)
                                     + st1.lay[child].content_width,
                            min_size |-> acc.min_size - IntrinsicValue(iw)
                                         + st1.lay[child].min_content_width]
                  ELSE acc
             ELSE LET st1 == LayoutNode(acc.st, child,
                                 FlexAlloc(cs.flex, cs.margin_left, cs.margin_right,
                                           quantum),
                                 available_height, TRUE, cs.direction = ROW)
                  IN  [st |-> st1,
                       size |-> acc.size + st1.lay[child].content_width,
                       min_size |-> acc.min_size + st1.lay[child].min_content_width]
        ELSE acc

RECURSIVE RowPass2(_, _, _, _, _)
RowPass2(acc, kids, i, available_height, quantum) ==
    IF i > Len(kids)
    THEN acc
    ELSE RowPass2(RowPass2Child(acc, kids[i], available_height, quantum),
                  kids, i + 1, available_height, quantum)

\* "if use_all_width: width = max(width, available_width)", either axis.
UseAll(use_all, size, available) ==
    IF use_all THEN FMax(size, available) ELSE size

\* Pass 3, the horizontal position of one child of a row; offset is the offset
\* before the child.
RowChildLeftAlwaysLTR(text_direction, width, offset, cs, content_width) ==
    [left |-> Num(offset + cs.margin_left),
     offset |-> offset + cs.margin_left + content_width + cs.margin_right]

RowChildLeft(text_direction, width, offset, cs, content_width) ==
    IF text_direction = RTL
    THEN [left |-> FSub(width, Num(offset + content_width + cs.margin_right)),
          offset |-> offset + content_width + cs.margin_right + cs.margin_left]
    ELSE [left |-> Num(offset + cs.margin_left),
          offset |-> offset + cs.margin_left + content_width + cs.margin_right]

\* acc = [st, offset, cross, min_cross]
RECURSIVE RowPass3(_, _, _, _, _)
RowPass3(acc, kids, i, text_direction, width) ==
    IF i > Len(kids)
    THEN acc
    ELSE LET child == kids[i]
             cs == style[child]
             box == acc.st.lay[child]
             p == RowChildLeft(text_direction, width, acc.offset, cs,
                               box.content_width)
         IN  RowPass3([st |-> [acc.st EXCEPT !.lay[child].content_left = p.left,
                                             !.writes = Append(@, <<"left", child>>)],
                       offset |-> p.offset,
                       cross |-> IntMax(acc.cross, cs.margin_top + box.content_height
                                                   + cs.margin_bottom),
                       min_cross |-> IntMax(acc.min_cross,
                                            cs.margin_top + box.min_content_height
                                            + cs.margin_bottom)],
                      kids, i + 1, text_direction, width)

\* Pass 4, the vertical position of one child of a row.
RowChildTop(align_items, height, cs, content_height) ==
    LET extra == FSub(height, Num(content_height + cs.margin_top + cs.margin_bottom))
    IN  IF align_items = END
        THEN FAdd(extra, Num(cs.margin_top))
        ELSE IF align_items = CENTER
        THEN Num(ToInt(FDiv(extra, Num(2))) + cs.margin_top)
        ELSE Num(cs.margin_top)

RECURSIVE RowPass4(_, _, _, _, _)
RowPass4(st, kids, i, align_items, height) ==
    IF i > Len(kids)
    THEN st
    ELSE LET child == kids[i]
         IN  RowPass4([st EXCEPT !.lay[child].content_top =
                          RowChildTop(align_items, height, style[child],
                                      st.lay[child].content_height),
                                  !.writes = Append(@, <<"top", child>>)],
                      kids, i + 1, align_items, height)

\* The flex accounting after pass 1a; p1 is what pass 1 accumulated.
RowFlex(p1, kids) ==
    LET q0 == Quantum(p1.remaining, p1.min_flex, p1.flex_total)
    IN  IF p1.flex_total > 0
        THEN RowPass1a([flex_total |-> p1.flex_total, min_flex |-> p1.min_flex],
                       kids, 1, q0)
        ELSE [flex_total |-> p1.flex_total, min_flex |-> p1.min_flex]

\* The quantum after pass 1a.
RowQuantum(p1, kids) ==
    Quantum(p1.remaining, RowFlex(p1, kids).min_flex, RowFlex(p1, kids).flex_total)

\* The row height, pass 4 and the return value; p2 and p3 are what passes 2
\* and 3 accumulated.
RowAfterPass3(node, kids, p2, p3, width, available_height, use_all_height) ==
    LET height == UseAll(use_all_height, Num(p3.cross), available_height)
    IN  [st |-> RowPass4(p3.st, kids, 1, AlignItems(style[node]), height),
         min_width |-> p2.min_size, width |-> width,
         min_height |-> p3.min_cross, height |-> height]

\* The row width and pass 3.
RowAfterPass2(node, kids, p2, available_width, available_height, use_all_width, use_all_height) ==
    LET width == UseAll(use_all_width, Num(p2.size), available_width)
    IN  RowAfterPass3(node, kids, p2,
                      RowPass3([st |-> p2.st, offset |-> 0, cross |-> 0, min_cross |-> 0],
                               kids, 1, style[node].text_direction, width),
                      width, available_height, use_all_height)

\* Variant: the children are given their horizontal positions once before
\* pass 2 as well.
RowAfterPass1PositionsFirst(node, kids, p1, available_width, available_height, use_all_width, use_all_height) ==
    RowAfterPass2(node, kids,
                  RowPass2([st |-> NoteFlex(RowPass3([st |-> p1.st, offset |-> 0,
                                                      cross |-> 0, min_cross |-> 0],
                                                     kids, 1, style[node].text_direction,
                                                     available_width).st,
                                            node, p1.flex_total,
                                            RowFlex(p1, kids).flex_total,
                                            RowQuantum(p1, kids)),
                            size |-> p1.size, min_size |-> p1.min_size],
                           kids, 1, available_height, RowQuantum(p1, kids)),
                  available_width, available_height, use_all_width, use_all_height)

\* Pass 1a and pass 2.
RowAfterPass1(node, kids, p1, available_width, available_height, use_all_width, use_all_height) ==
    RowAfterPass2(node, kids,
                  RowPass2([st |-> NoteFlex(p1.st, node, p1.flex_total,
                                            RowFlex(p1, kids).flex_total,
                                            RowQuantum(p1, kids)),
                            size |-> p1.size, min_size |-> p1.min_size],
                           kids, 1, available_height, RowQuantum(p1, kids)),
                  available_width, available_height, use_all_width, use_all_height)

LayoutRowChildren(st, node, available_width, available_height, use_all_width, use_all_height) ==
    RowAfterPass1(node, children[node],
                  RowPass1([st |-> st, flex_total |-> 0, min_flex |-> 0, size |-> 0,
                            min_size |-> 0, remaining |-> available_width],
                           children[node], 1, available_height),
                  available_width, available_height, use_all_width, use_all_height)

\* ----------------------------------------------------------------------
\* _layout_column_children
\* ----------------------------------------------------------------------

\* Pass 1, one child.
ColumnPass1Child(acc, child, available_width) ==
    LET cs == style[child]
        ih == intrinsic[child].height
        here == LayoutNode(acc.st, child, available_width, acc.remaining,
                           cs.direction = COLUMN, FALSE)
        zero == LayoutNode(acc.st, child, available_width, Num(0),
                           cs.direction = COLUMN, FALSE)
    IN  IF cs.height # NONE
        THEN Pass1Totals(acc, here, acc.flex_total, acc.min_flex,
                         cs.margin_top, cs.margin_bottom,
                         here.lay[child].content_height,
                         here.lay[child].content_height)
        ELSE IF ih # NONE
        THEN IF HasValue(ih)
             THEN IF cs.flex # 0
                  THEN Pass1Totals(acc, acc.st, acc.flex_total + cs.flex,
                                   acc.min_flex + (cs.margin_top + IntrinsicValue(ih)
                                                   + cs.margin_bottom),
                                   cs.margin_top, cs.margin_bottom,
                                   IntrinsicValue(ih), IntrinsicValue(ih))
                  ELSE Pass1Totals(acc, zero, acc.flex_total, acc.min_flex,
                                   cs.margin_top, cs.margin_bottom,
                                   zero.lay[child].content_height,
                                   zero.lay[child].content_height)
             ELSE Pass1Totals(acc, here, acc.flex_total, acc.min_flex,
                              cs.margin_top, cs.margin_bottom,
                              here.lay[child].content_height,
                              here.lay[child].content_height)
        ELSE IF cs.flex # 0
             THEN Pass1Totals(acc, acc.st, acc.flex_total + cs.flex, acc.min_flex,
                              cs.margin_top, cs.margin_bottom,
                              DeferredContent(acc.st.lay[child].content_height),
                              DeferredContent(acc.st.lay[child].min_content_height))
             ELSE Pass1Totals(acc, here, acc.flex_total, acc.min_flex,
                              cs.margin_top, cs.margin_bottom,
                              here.lay[child].content_height,
                              here.lay[child].min_content_height)

RECURSIVE ColumnPass1(_, _, _, _)
ColumnPass1(acc, kids, i, available_width) ==
    IF i > Len(kids)
    THEN acc
    ELSE ColumnPass1(NoteRemaining(ColumnPass1Child(acc, kids[i], available_width),
                                   kids[i], acc.remaining),
                     kids, i + 1, available_width)

RECURSIVE ColumnPass1a(_, _, _, _)
ColumnPass1a(fa, kids, i, quantum) ==
    IF i > Len(kids)
    THEN fa
    ELSE LET cs == style[kids[i]]
         IN  ColumnPass1a(Pass1aChild(fa, cs.flex, intrinsic[kids[i]].height,
                                      cs.margin_top, cs.margin_bottom, quantum),
                          kids, i + 1, quantum)

\* Pass 2, one child.  acc = [st, size, min_size].
ColumnPass2Child(acc, child, available_width, quantum) ==
    LET cs == style[child]
        ih == intrinsic[child].height
    IN  IF cs.height # NONE
        THEN acc
        ELSE IF cs.flex # 0
        THEN IF ih # NONE
             THEN IF HasValue(ih)
                  THEN LET st1 == LayoutNode(acc.st, child, available_width,
                                      FlexIntrinsicAlloc(cs.flex, IntrinsicValue(ih),
                                          cs.margin_top, cs.margin_bottom, quantum),
                                      cs.direction = COLUMN, TRUE)
                       IN  [st |-> st1,
                            size |-> acc.size - IntrinsicValue(ih)
                                     + st1.lay[child].content_height,
                            min_size |-> acc.min_size - IntrinsicValue(ih)
                                         + st1.lay[child].min_content_height]
                  ELSE acc
             ELSE LET st1 == LayoutNode(acc.st, child, available_width,
                                 FlexAlloc(cs.flex, cs.margin_top, cs.margin_bottom,
                                           quantum),
                                 cs.direction = COLUMN, TRUE)
                  IN  [st |-> st1,
                       size |-> acc.size + st1.lay[child].content_height,
                       min_size |-> acc.min_size + st1.lay[child].min_content_height]
        ELSE acc

RECURSIVE ColumnPass2(_, _, _, _, _)
ColumnPass2(acc, kids, i, available_width, quantum) ==
    IF i > Len(kids)
    THEN acc
    ELSE ColumnPass2(ColumnPass2Child(acc, kids[i], available_width, quantum),
                     kids, i + 1, available_width, quantum)

\* Pass 3, the vertical position of one child of a column; offset is the
\* offset before the child.
ColumnChildTopOverlap(offset, cs, content_height) ==
    [top |-> Num(offset + cs.margin_top),
     offset |-> offset + cs.margin_top + cs.margin_bottom]

ColumnChildTop(offset, cs, content_height) ==
    [top |-> Num(offset + cs.margin_top),
     offset |-> offset + cs.margin_top + content_height + cs.margin_bottom]

\* acc = [st, offset, cross, min_cross]
RECURSIVE ColumnPass3(_, _, _)
ColumnPass3(acc, kids, i) ==
    IF i > Len(kids)
    THEN acc
    ELSE LET child == kids[i]
             cs == style[child]
             box == acc.st.lay[child]
             p == ColumnChildTop(acc.offset, cs, box.content_height)
         IN  ColumnPass3([st |-> [acc.st EXCEPT !.lay[child].content_top = p.top,
                                                !.writes = Append(@, <<"top", child>>)],
                          offset |-> p.offset,
                          cross |-> IntMax(acc.cross, box.content_width
                                                      + cs.margin_left + cs.margin_right),
                          min_cross |-> IntMax(acc.min_cross,
                                               cs.margin_left + box.min_content_width
                                               + cs.margin_right)],
                         kids, i + 1)

\* Pass 4, the horizontal position of one child of a column.
ColumnChildLeftMirrored(text_direction, align_items, width, cs, content_width) ==
    LET extra == FSub(width, Num(content_width + cs.margin_left + cs.margin_right))
    IN  IF (text_direction = LTR /\ align_items = END)
           \/ (text_direction = RTL /\ (align_items = START \/ align_items = Unset))
        THEN FAdd(extra, Num(cs.margin_left))
        ELSE IF align_items = CENTER
        THEN Num(ToInt(FDiv(extra, Num(2))) + cs.margin_left)
        ELSE Num(cs.margin_left)

ColumnChildLeft(text_direction, align_items, width, cs, content_width) ==
    LET extra == FSub(width, Num(content_width + cs.margin_left + cs.margin_right))
    IN  IF (text_direction = LTR /\ align_items = END)
           \/ (text_direction = RTL /\ align_items = START)
        THEN FAdd(extra, Num(cs.margin_left))
        ELSE IF align_items = CENTER
        THEN Num(ToInt(FDiv(extra, Num(2))) + cs.margin_left)
        ELSE Num(cs.margin_left)

RECURSIVE ColumnPass4(_, _, _, _, _, _)
ColumnPass4(st, kids, i, text_direction, align_items, width) ==
    IF i > Len(kids)
    THEN st
    ELSE LET child == kids[i]
         IN  ColumnPass4([st EXCEPT !.lay[child].content_left =
                             ColumnChildLeft(text_direction, align_items, width,
                                             style[child], st.lay[child].content_width),
                                     !.writes = Append(@, <<"left", child>>)],
                         kids, i + 1, text_direction, align_items, width)

\* The flex accounting after pass 1a; p1 is what pass 1 accumulated.
ColumnFlex(p1, kids) ==
    LET q0 == Quantum(p1.remaining, p1.min_flex, p1.flex_total)
    IN  IF p1.flex_total > 0
        THEN ColumnPass1a([flex_total |-> p1.flex_total, min_flex |-> p1.min_flex],
                          kids, 1, q0)
        ELSE [flex_total |-> p1.flex_total, min_flex |-> p1.min_flex]

\* The quantum after pass 1a.
ColumnQuantum(p1, kids) ==
    Quantum(p1.remaining, ColumnFlex(p1, kids).min_flex, ColumnFlex(p1, kids).flex_total)

\* The column width, pass 4 and the return value; p2 and p3 are what passes 2
\* and 3 accumulated.
ColumnAfterPass3(node, kids, p2, p3, height, available_width, use_all_width) ==
    LET width == UseAll(use_all_width, Num(p3.cross), available_width)
    IN  [st |-> ColumnPass4(p3.st, kids, 1, style[node].text_direction,
                            AlignItems(style[node]), width),
         min_width |-> p3.min_cross, width |-> width,
         min_height |-> p2.min_size, height |-> height]

\* The column height and pass 3.
ColumnAfterPass2(node, kids, p2, available_width, available_height, use_all_width, use_all_height) ==
    ColumnAfterPass3(node, kids, p2,
                     ColumnPass3([st |-> p2.st, offset |-> 0, cross |-> 0, min_cross |-> 0],
                                 kids, 1),
                     UseAll(use_all_height, Num(p2.size), available_height),
                     available_width, use_all_width)

\* Pass 1a and pass 2.
ColumnAfterPass1(node, kids, p1, available_width, available_height, use_all_width, use_all_height) ==
    ColumnAfterPass2(node, kids,
                     ColumnPass2([st |-> NoteFlex(p1.st, node, p1.flex_total,
                                                  ColumnFlex(p1, kids).flex_total,
                                                  ColumnQuantum(p1, kids)),
                                  size |-> p1.size, min_size |-> p1.min_size],
                                 kids, 1, available_width, ColumnQuantum(p1, kids)),
                     available_width, available_height, use_all_width, use_all_height)

LayoutColumnChildren(st, node, available_width, available_height, use_all_width, use_all_height) ==
    ColumnAfterPass1(node, children[node],
                     ColumnPass1([st |-> st, flex_total |-> 0, min_flex |-> 0, size |-> 0,
                                  min_size |-> 0, remaining |-> available_height],
                                 children[node], 1, available_width),
                     available_width, available_height, use_all_width, use_all_height)

\* ----------------------------------------------------------------------
\* layout
\* ----------------------------------------------------------------------

\* Pack.layout(node, viewport): the root takes the whole viewport and uses all
\* of it on both axes, and is then placed at its own margins.
LayoutRoot(lay, vp) ==
    LET st0 == [lay |-> lay,
                calls |-> [n \in Nodes |-> <<>>],
                writes |-> <<>>,
                rets |-> [n \in Nodes |-> NoReturn]]
        st1 == LayoutNode(st0, Root, Num(vp[1]), Num(vp[2]), TRUE, TRUE)
    IN  [st1 EXCEPT !.lay[Root].content_top = Num(style[Root].margin_top),
                    !.lay[Root].content_bottom = style[Root].margin_bottom,
                    !.lay[Root].content_left = Num(style[Root].margin_left),
                    !.lay[Root].content_right = style[Root].margin_right,
                    !.writes = @ \o << <<"top", Root>>, <<"left", Root>> >>]

\* ----------------------------------------------------------------------
\* The trees laid out
\* ----------------------------------------------------------------------
MaxLayouts == 2

Viewports == {<<30, 100>>, <<7, 5>>}

FlexWeights == {0, 1, 3}

NoMargins == [top |-> 0, right |-> 0, bottom |-> 0, left |-> 0]

SomeMargins == [top |-> 3, right |-> 2, bottom |-> 4, left |-> 1]

\* A node's inputs: its style record and its intrinsic size.
MkNode(direction, text_direction, align_items, alignment, width, height, flex, m, iw, ih) ==
    [style |-> [direction |-> direction, text_direction |-> text_direction,
                align_items |-> align_items, alignment |-> alignment,
                width |-> width, height |-> height, flex |-> flex,
                margin_top |-> m.top, margin_right |-> m.right,
                margin_bottom |-> m.bottom, margin_left |-> m.left,
                visibility |-> VISIBLE, text_align |-> Unset],
     intrinsic |-> [width |-> iw, height |-> ih]]

\* The sizing of a node on its two axes: explicit size and intrinsic size.
SzAuto == [w |-> NONE, h |-> NONE, iw |-> NONE, ih |-> NONE]

SzBoth == [w |-> <<10>>, h |-> <<20>>, iw |-> NONE, ih |-> NONE]

SzWidth == [w |-> <<20>>, h |-> NONE, iw |-> NONE, ih |-> NONE]

SzHeight == [w |-> NONE, h |-> <<20>>, iw |-> NONE, ih |-> NONE]

SzFixed == [w |-> NONE, h |-> NONE, iw |-> <<"fixed", 15>>, ih |-> <<"fixed", 5>>]

SzAtLeast == [w |-> NONE, h |-> NONE, iw |-> <<"atleast", 15>>, ih |-> <<"atleast", 5>>]

SzMixed == [w |-> NONE, h |-> NONE, iw |-> <<"atleast", 4>>, ih |-> <<"fixed", 5>>]

SzOver == [w |-> <<10>>, h |-> <<20>>, iw |-> <<"atleast", 15>>, ih |-> <<"atleast", 25>>]

\* An explicit width that children of the other sizings do not fill.
SzWide == [w |-> <<40>>, h |-> NONE, iw |-> NONE, ih |-> NONE]

Sizings == {SzAuto, SzBoth, SzWidth, SzHeight, SzFixed, SzAtLeast, SzMixed, SzOver}

Leaves(sizings, flexes, margins) ==
    {MkNode(ROW, LTR, Unset, Unset, z.w, z.h, f, m, z.iw, z.ih) :
        z \in sizings, f \in flexes, m \in margins}

Containers(directions, text_directions, aligns, sizings, flexes, margins) ==
    {MkNode(d, t, a, Unset, z.w, z.h, f, m, z.iw, z.ih) :
        d \in directions, t \in text_directions, a \in aligns,
        z \in sizings, f \in flexes, m \in margins}

\* A container whose alignment is given by the deprecated "alignment".
Legacy(directions, text_directions, alignments) ==
    {MkNode(d, t, Unset, a, NONE, NONE, 0, NoMargins, NONE, NONE) :
        d \in directions, t \in text_directions, a \in alignments}

Directions == {ROW, COLUMN}

TextDirections == {LTR, RTL}

Aligns == {Unset, START, CENTER, END}

Alignments == {LEFT, RIGHT, TOP, BOTTOM, CENTER}

\* Tree shapes: node 1 is the root.
Leaf1 == <<  <<>>  >>

Flat3 == << <<2, 3>>, <<>>, <<>> >>

Nested5 == << <<2, 3>>, <<4, 5>>, <<>>, <<>>, <<>> >>

\* No property has been set or deleted yet.
NothingChanged == [node |-> 0, op |-> NONE, name |-> NONE, value |-> NONE]

\* No apply() has been made yet.
NothingApplied == [node |-> 0, prop |-> NONE, value |-> NONE]

\* A tree as constructed; app tells which nodes' styles have an applicator.
InitWidgets(shape, nodes, app) ==
    /\ children = shape
    /\ style = [n \in DOMAIN shape |-> nodes[n].style]
    /\ intrinsic = [n \in DOMAIN shape |-> nodes[n].intrinsic]
    /\ layout = [n \in DOMAIN shape |-> EmptyBox]
    /\ calls = [n \in DOMAIN shape |-> <<>>]
    /\ rets = [n \in DOMAIN shape |-> NoReturn]
    /\ writes = <<>>
    /\ changed = NothingChanged
    /\ viewport = NONE
    /\ prevViewport = NONE
    /\ prevLayout = [n \in DOMAIN shape |-> EmptyBox]
    /\ numLayouts = 0
    /\ applicator = app
    /\ applied = NothingApplied
    /\ sink = <<>>

\* A tree of bare nodes: no style has an applicator.
InitTree(shape, nodes) ==
    InitWidgets(shape, nodes, [n \in DOMAIN shape |-> FALSE])

\* A single node.
InitLeaf ==
    \E r \in Leaves(Sizings, FlexWeights, {NoMargins, SomeMargins}) :
        InitTree(Leaf1, <<r>>)

\* A container of two leaves: every sizing and flex weight of the leaves.
InitFlatSizes ==
    \E r \in Containers(Directions, {LTR}, {Unset}, {SzAuto, SzBoth}, {0}, {NoMargins}),
       a \in Leaves(Sizings, FlexWeights, {NoMargins}),
       b \in Leaves(Sizings, FlexWeights, {NoMargins, SomeMargins}) :
        InitTree(Flat3, <<r, a, b>>)

\* A container of two leaves: every direction, text direction and alignment
\* of the container.
InitFlatAlign ==
    \E r \in Containers(Directions, TextDirections, Aligns, {SzAuto, SzBoth}, {0},
                        {NoMargins, SomeMargins})
             \cup Legacy(Directions, TextDirections, Alignments),
       a \in Leaves({SzAuto, SzBoth, SzFixed}, {0}, {NoMargins}),
       b \in Leaves({SzWidth, SzHeight, SzAtLeast}, {0, 1}, {NoMargins, SomeMargins}) :
        InitTree(Flat3, <<r, a, b>>)

\* A container (node 2) inside a container.
InitNested ==
    \E r \in Containers(Directions, {LTR}, {Unset}, {SzAuto}, {0}, {NoMargins}),
       c \in Containers(Directions, TextDirections, {Unset, CENTER, END},
                        {SzAuto, SzBoth, SzHeight, SzAtLeast}, {0, 1}, {NoMargins}),
       d \in Leaves({SzAuto}, {3}, {NoMargins}) \cup Leaves({SzWidth}, {0}, {NoMargins}),
       a \in Leaves({SzAuto, SzFixed}, {0, 1}, {NoMargins}),
       b \in Leaves({SzBoth, SzFixed}, {0}, {SomeMargins}) :
        InitTree(Nested5, <<r, c, d, a, b>>)

\* A row (node 2) of two leaves without margins, inside a container, with
\* or without a share of the container's space of its own.
InitNestedRow ==
    \E r \in Containers(Directions, {LTR}, {Unset}, {SzAuto}, {0}, {NoMargins}),
       c \in Containers({ROW}, TextDirections, {Unset}, {SzAuto, SzWide}, {0, 1},
                        {NoMargins}),
       d \in Leaves({SzAuto}, {0, 3}, {NoMargins}),
       a \in Leaves({SzBoth, SzFixed, SzMixed}, {0}, {NoMargins}),
       b \in Leaves({SzWidth, SzAuto}, {0, 1}, {NoMargins}) :
        InitTree(Nested5, <<r, c, d, a, b>>)

Init ==
    \/ InitLeaf
    \/ InitFlatSizes
    \/ InitFlatAlign
    \/ InitNested
    \/ InitNestedRow

\* ----------------------------------------------------------------------
\* Operations
\* ----------------------------------------------------------------------
\* style.layout(root, viewport)
LayoutNormalisingAlignment(vp) ==
    /\ numLayouts < MaxLayouts
    /\ numLayouts' = numLayouts + 1
    /\ \E r \in {LayoutRoot(layout, vp)} :
          /\ layout' = r.lay
          /\ calls' = r.calls
          /\ rets' = r.rets
          /\ writes' = r.writes
    /\ prevLayout' = layout
    /\ prevViewport' = viewport
    /\ viewport' = vp
    /\ style' = [n \in Nodes |-> [style[n] EXCEPT !.align_items = AlignItems(style[n]),
                                                  !.alignment = Unset]]
    /\ UNCHANGED <<children, intrinsic, applicator, applied, sink, changed>>

Layout(vp) ==
    /\ numLayouts < MaxLayouts
    /\ numLayouts' = numLayouts + 1
    /\ \E r \in {LayoutRoot(layout, vp)} :
          /\ layout' = r.lay
          /\ calls' = r.calls
          /\ rets' = r.rets
          /\ writes' = r.writes
    /\ prevLayout' = layout
    /\ prevViewport' = viewport
    /\ viewport' = vp
    /\ UNCHANGED <<children, style, intrinsic, applicator, applied, sink, changed>>

Next ==
    \E vp \in Viewports : Layout(vp)

Spec ==
    Init /\ [][Next]_vars

\* ----------------------------------------------------------------------
\* apply(): what a style tells its applicator when a property changes
\* ----------------------------------------------------------------------
FontProperties == {"font_family", "font_size", "font_style", "font_variant", "font_weight"}

GeometryProperties ==
    {"display", "direction", "align_items", "alignment", "width", "height", "flex",
     "margin_top", "margin_right", "margin_bottom", "margin_left"}

Properties ==
    {"text_align", "text_direction", "color", "background_color", "visibility"}
        \cup FontProperties \cup GeometryProperties

\* The values a property is applied with (one representative where the value
\* plays no part in apply()).
ChoicesOf(prop) ==
    CASE prop = "text_align" -> {Unset, LEFT, CENTER}
      [] prop = "text_direction" -> TextDirections
      [] prop = "visibility" -> {VISIBLE, HIDDEN}
      [] prop \in {"color", "background_color"} -> {"red"}
      [] prop \in FontProperties -> {"normal"}
      [] prop \in {"direction"} -> {COLUMN}
      [] prop \in {"align_items", "alignment"} -> {CENTER}
      [] OTHER -> {<<10>>}

\* widget.parent is not None
HasParent(n) ==
    \E p \in Nodes : \E i \in DOMAIN children[p] : children[p][i] = n

\* widget.parent
Parent(n) ==
    CHOOSE p \in Nodes : \E i \in DOMAIN children[p] : children[p][i] = n

\* style._hidden
Hidden(n) ==
    style[n].visibility = HIDDEN

\* Variant: only the direct parent is looked at.
AncestorHiddenParentOnly(n) ==
    HasParent(n) /\ Hidden(Parent(n))

\* The walk "while widget := widget.parent": is some ancestor hidden?
RECURSIVE AncestorHidden(_)
AncestorHidden(n) ==
    IF ~HasParent(n) THEN FALSE
    ELSE IF Hidden(Parent(n)) THEN TRUE
    ELSE AncestorHidden(Parent(n))

Call(method, arg) ==
    [method |-> method, arg |-> arg]

\* The font built from the style's font properties (which the model does
\* not distinguish).
Font ==
    "Font"

\* The sequence of calls apply(prop, value) makes on the applicator of n.
ApplyCalls(n, prop, value) ==
    IF ~applicator[n] THEN <<>>
    ELSE IF prop = "text_align" THEN
        IF value = Unset
        THEN << Call("set_text_align", IF style[n].text_direction = RTL THEN RIGHT ELSE LEFT) >>
        ELSE << Call("set_text_align", value) >>
    ELSE IF prop = "text_direction" THEN
        IF style[n].text_align = Unset
        THEN << Call("set_text_align", IF value = RTL THEN RIGHT ELSE LEFT) >>
        ELSE <<>>
    ELSE IF prop = "color" THEN << Call("set_color", value) >>
    ELSE IF prop = "background_color" THEN << Call("set_background_color", value) >>
    ELSE IF prop = "visibility" THEN
        << Call("set_hidden", (IF value = VISIBLE /\ AncestorHidden(n)
                                THEN HIDDEN ELSE value) = HIDDEN) >>
    ELSE IF prop \in FontProperties THEN << Call("set_font", Font) >>
    ELSE << Call("refresh", NONE) >>

\* style.apply(prop, value) on node n; sink holds the calls it made.
Apply(n, prop, value) ==
    /\ applied' = [node |-> n, prop |-> prop, value |-> value]
    /\ sink' = ApplyCalls(n, prop, value)
    /\ UNCHANGED <<children, style, intrinsic, layout, calls, rets, viewport,
                   prevViewport, prevLayout, numLayouts, applicator, writes, changed>>

\* Widgets: a chain of three nodes and a container of two, each node
\* visible or hidden, the last one with or without a text alignment, the
\* styles all with or all without an applicator.
Chain3 == << <<2>>, <<3>>, <<>> >>

Widget(visibility, text_align, text_direction) ==
    LET node == MkNode(ROW, text_direction, Unset, Unset, NONE, NONE, 0, NoMargins, NONE, NONE)
    IN  [node EXCEPT !.style.visibility = visibility, !.style.text_align = text_align]

Widgets(texts) ==
    {Widget(v, t[1], t[2]) : v \in {VISIBLE, HIDDEN}, t \in texts}

InitApplied ==
    \E shape \in {Chain3, Flat3}, has \in BOOLEAN :
        \E r \in Widgets({<<Unset, LTR>>}), a \in Widgets({<<Unset, LTR>>}),
           b \in Widgets({<<Unset, LTR>>, <<Unset, RTL>>, <<CENTER, LTR>>}) :
            InitWidgets(shape, <<r, a, b>>, [n \in DOMAIN shape |-> has])

NextApplied ==
    \/ \E vp \in Viewports : Layout(vp)
    \/ \E n \in Nodes : \E prop \in Properties : \E value \in ChoicesOf(prop) :
          Apply(n, prop, value)

\* The widgets with their applicators: layouts and property changes.
SpecApplied ==
    InitApplied /\ [][NextApplied]_vars

\* ----------------------------------------------------------------------
\* Setting and deleting style properties
\* ----------------------------------------------------------------------
\* style.name = value on node n. (The base class then notifies the style's
\* applicator; that notification is not part of this file.)
SetAttribute(n, name, value) ==
    /\ style' = [style EXCEPT ![n] = SetAttr(@, name, value)]
    /\ changed' = [node |-> n, op |-> "set", name |-> name, value |-> value]
    /\ UNCHANGED <<children, intrinsic, layout, calls, rets, viewport, prevViewport,
                   prevLayout, numLayouts, applicator, applied, sink, writes>>

\* style[name] = value
SetItem(n, name, value) ==
    SetAttribute(n, Underscored(name), value)

\* del style.name on node n
DelAttribute(n, name) ==
    /\ style' = [style EXCEPT ![n] = DelAttr(@, name)]
    /\ changed' = [node |-> n, op |-> "del", name |-> name, value |-> NONE]
    /\ UNCHANGED <<children, intrinsic, layout, calls, rets, viewport, prevViewport,
                   prevLayout, numLayouts, applicator, applied, sink, writes>>

\* del style[name]
DelItem(n, name) ==
    DelAttribute(n, Underscored(name))

\* The names used with the attribute syntax and with the item syntax.
AttributeNames ==
    {ALIGN_ITEMS, ALIGNMENT, "direction", "text_direction", "padding_left"}

ItemNames ==
    {"align-items", ALIGNMENT, "text-direction"}

\* The values assigned: to a keyword property every keyword, accepted by the
\* property or not, and to a margin an integer.
AssignedValues(name) ==
    IF UpdatePropertyName(Underscored(name)) = "margin_left"
    THEN {0, 2}
    ELSE {START, END, CENTER, LEFT, RIGHT, TOP, BOTTOM, ROW, COLUMN, LTR, RTL}

\* A single node whose style stores align_items, alignment or neither.
InitStyled ==
    \E r \in Containers(Directions, TextDirections, Aligns, {SzAuto}, {0}, {NoMargins})
             \cup Legacy(Directions, TextDirections, Alignments) :
        InitTree(Leaf1, <<r>>)

NextStyled ==
    \/ \E vp \in Viewports : Layout(vp)
    \/ \E n \in Nodes : \E name \in AttributeNames : \E value \in AssignedValues(name) :
          SetAttribute(n, name, value)
    \/ \E n \in Nodes : \E name \in ItemNames : \E value \in AssignedValues(name) :
          SetItem(n, name, value)
    \/ \E n \in Nodes : \E name \in AttributeNames : DelAttribute(n, name)
    \/ \E n \in Nodes : \E name \in ItemNames : DelItem(n, name)

\* A style whose properties are set and deleted, and layouts.
SpecStyled ==
    InitStyled /\ [][NextStyled]_vars

\* ----------------------------------------------------------------------
\* Properties
\* ----------------------------------------------------------------------
LaidOut ==
    numLayouts > 0

IsRow(n) ==
    children[n] # <<>> /\ style[n].direction = ROW

IsColumn(n) ==
    children[n] # <<>> /\ style[n].direction = COLUMN

IsLeaf(n) ==
    children[n] = <<>>

\* The margin box of a node as laid out, on either axis.
BoxWidth(n) ==
    style[n].margin_left + layout[n].content_width + style[n].margin_right

BoxHeight(n) ==
    style[n].margin_top + layout[n].content_height + style[n].margin_bottom

RECURSIVE SumBoxWidths(_, _)
SumBoxWidths(kids, k) ==
    IF k = 0 THEN 0 ELSE SumBoxWidths(kids, k - 1) + BoxWidth(kids[k])

RECURSIVE SumBoxHeights(_, _)
SumBoxHeights(kids, k) ==
    IF k = 0 THEN 0 ELSE SumBoxHeights(kids, k - 1) + BoxHeight(kids[k])

\* The available width (height) with which the children procedure of node n
\* was entered in the last layout, from the recorded call.
AvailableWidthOf(n) ==
    AvailableSize(style[n].width, intrinsic[n].width, calls[n][1].alloc_width,
                  style[n].margin_left, style[n].margin_right).avail

AvailableHeightOf(n) ==
    AvailableSize(style[n].height, intrinsic[n].height, calls[n][1].alloc_height,
                  style[n].margin_top, style[n].margin_bottom).avail

\* C1. Explicit size dominance: after layout, a node with an explicit width
\* W has content_width = W = min_content_width, and a node with an explicit
\* height H has content_height = H = min_content_height, whatever its
\* children, intrinsic size and allocation are.
ExplicitSizeDominance ==
    LaidOut =>
        \A n \in Nodes :
            /\ style[n].width # NONE =>
                   /\ layout[n].content_width = style[n].width[1]
                   /\ layout[n].min_content_width = style[n].width[1]
            /\ style[n].height # NONE =>
                   /\ layout[n].content_height = style[n].height[1]
                   /\ layout[n].min_content_height = style[n].height[1]

\* A node with an explicit size whose children asked for another width and
\* another minimum width, and for another height and minimum height.
ExplicitSizeDominanceWitness ==
    /\ LaidOut
    /\ \E n \in Nodes :
          /\ children[n] # <<>>
          /\ style[n].width # NONE
          /\ style[n].height # NONE
          /\ rets[n].width # Num(style[n].width[1])
          /\ rets[n].min_width # style[n].width[1]
          /\ rets[n].height # Num(style[n].height[1])
          /\ rets[n].min_height # style[n].height[1]

\* C2. Min <= content: after layout every node has
\* min_content_width <= content_width and min_content_height <= content_height.
MinAtMostContent ==
    LaidOut =>
        \A n \in Nodes :
            /\ layout[n].min_content_width <= layout[n].content_width
            /\ layout[n].min_content_height <= layout[n].content_height

\* A container without explicit size whose minimum is positive and strictly
\* below its content size on both axes, holding a flex child with a flexible
\* intrinsic size.
MinAtMostContentWitness ==
    /\ LaidOut
    /\ \E n \in Nodes :
          /\ children[n] # <<>>
          /\ style[n].width = NONE
          /\ style[n].height = NONE
          /\ 0 < layout[n].min_content_width
          /\ layout[n].min_content_width < layout[n].content_width
          /\ 0 < layout[n].min_content_height
          /\ layout[n].min_content_height < layout[n].content_height
          /\ \E i \in DOMAIN children[n] :
                /\ style[children[n][i]].flex > 0
                /\ HasValue(intrinsic[children[n][i]].width)

\* A node with exactly two children, flex weights 1 and 3 in either order,
\* neither with margins.
FlexPair(n) ==
    /\ Len(children[n]) = 2
    /\ {style[children[n][1]].flex, style[children[n][2]].flex} = {1, 3}
    /\ \A i \in 1..2 :
          LET cs == style[children[n][i]]
          IN  /\ cs.margin_left = 0 /\ cs.margin_right = 0
              /\ cs.margin_top = 0 /\ cs.margin_bottom = 0

\* The share of weight f out of 1 + 3 of the space S, truncated.
Share(S, f) ==
    ToInt(FDiv(FMul(S, Num(f)), Num(4)))

\* Flex proportionality for the children of n, all of them or the childless
\* ones only.
SharesOfRow(n) ==
    \A i \in 1..2 :
        LET c == children[n][i]
        IN  layout[c].content_width = Share(AvailableWidthOf(n), style[c].flex)

SharesOfColumn(n) ==
    \A i \in 1..2 :
        LET c == children[n][i]
        IN  layout[c].content_height = Share(AvailableHeightOf(n), style[c].flex)

AutoWidth(c) ==
    style[c].width = NONE /\ intrinsic[c].width = NONE

AutoHeight(c) ==
    style[c].height = NONE /\ intrinsic[c].height = NONE

\* C3 as stated. Flex proportionality: in a row whose only children are two
\* flex children of weights 1 and 3 with no explicit width, no intrinsic width
\* and no margins, each child's content_width is its share S/4 or 3S/4 of the
\* available width S, truncated; the same for heights in a column.
FlexProportionalityAnyChildren ==
    LaidOut =>
        \A n \in Nodes :
            /\ (IsRow(n) /\ FlexPair(n) /\ \A i \in 1..2 : AutoWidth(children[n][i]))
                   => SharesOfRow(n)
            /\ (IsColumn(n) /\ FlexPair(n) /\ \A i \in 1..2 : AutoHeight(children[n][i]))
                   => SharesOfColumn(n)

\* C3 as amended: the same, for two childless flex children.
FlexProportionality ==
    LaidOut =>
        \A n \in Nodes :
            /\ (IsRow(n) /\ FlexPair(n)
                /\ \A i \in 1..2 : AutoWidth(children[n][i]) /\ IsLeaf(children[n][i]))
                   => SharesOfRow(n)
            /\ (IsColumn(n) /\ FlexPair(n)
                /\ \A i \in 1..2 : AutoHeight(children[n][i]) /\ IsLeaf(children[n][i]))
                   => SharesOfColumn(n)

\* A row of space 30 shared 7 : 22 by two childless flex children (the shares
\* 7.5 and 22.5 truncated, so the sum is 29).
FlexProportionalityWitness ==
    /\ LaidOut
    /\ \E n \in Nodes :
          /\ IsRow(n) /\ FlexPair(n)
          /\ \A i \in 1..2 : AutoWidth(children[n][i]) /\ IsLeaf(children[n][i])
          /\ AvailableWidthOf(n) = Num(30)
          /\ {layout[children[n][1]].content_width,
              layout[children[n][2]].content_width} = {7, 22}

\* A childless node with no explicit and no intrinsic size, and its call.
BareLeaf(n) ==
    /\ IsLeaf(n)
    /\ AutoWidth(n) /\ AutoHeight(n)
    /\ calls[n] # <<>>
    /\ calls[n][1].use_all_width /\ calls[n][1].use_all_height

\* C4 as stated. No-children leaf: a childless node with no explicit and no
\* intrinsic size, laid out with allocation (Aw, Ah) and both use-all flags,
\* ends with content_width = Aw, content_height = Ah and both minimums 0.
LeafTakesAllocation ==
    LaidOut =>
        \A n \in Nodes :
            BareLeaf(n) =>
                /\ Num(layout[n].content_width) = calls[n][1].alloc_width
                /\ Num(layout[n].content_height) = calls[n][1].alloc_height
                /\ layout[n].min_content_width = 0
                /\ layout[n].min_content_height = 0

\* C4 as amended: such a node ends with
\* content_width = int(max(0, Aw - margin_left - margin_right)),
\* content_height = int(max(0, Ah - margin_top - margin_bottom)) and both
\* minimums 0.
LeafTakesAllocationLessMargins ==
    LaidOut =>
        \A n \in Nodes :
            BareLeaf(n) =>
                /\ layout[n].content_width =
                       ToInt(FMax(Num(0), FSub(calls[n][1].alloc_width,
                             Num(style[n].margin_left + style[n].margin_right))))
                /\ layout[n].content_height =
                       ToInt(FMax(Num(0), FSub(calls[n][1].alloc_height,
                             Num(style[n].margin_top + style[n].margin_bottom))))
                /\ layout[n].min_content_width = 0
                /\ layout[n].min_content_height = 0

\* Such a node with margins, whose content box is smaller than its allocation.
LeafTakesAllocationWitness ==
    /\ LaidOut
    /\ \E n \in Nodes :
          /\ BareLeaf(n)
          /\ style[n].margin_left + style[n].margin_right > 0
          /\ style[n].margin_top + style[n].margin_bottom > 0
          /\ layout[n].content_width > 0
          /\ layout[n].content_height > 0
          /\ FLess(Num(layout[n].content_width), calls[n][1].alloc_width)
          /\ FLess(Num(layout[n].content_height), calls[n][1].alloc_height)

\* C5. Row cross-axis alignment: in a row whose content_height after layout is
\* H, a child of content_height h and vertical margins mt, mb has content_top
\* (H - (h + mt + mb)) + mt for END, floor((H - (h + mt + mb)) / 2) + mt for
\* CENTER, and mt for START or unset.
RowAlignmentInContentHeight ==
    LaidOut =>
        \A n \in Nodes :
            IsRow(n) =>
                \A i \in DOMAIN children[n] :
                    LET c == children[n][i]
                        extra == layout[n].content_height - BoxHeight(c)
                        a == AlignItems(style[n])
                    IN  layout[c].content_top =
                            IF a = END THEN Num(extra + style[c].margin_top)
                            ELSE IF a = CENTER
                                 THEN Num((extra \div 2) + style[c].margin_top)
                                 ELSE Num(style[c].margin_top)

\* The width and height computed by the children procedure of node n in the
\* last layout (its return values, before _layout_node truncates or overrides
\* them).
RowWidthOf(n) ==
    rets[n].width

ColumnWidthOf(n) ==
    rets[n].width

\* C6. RTL placement in a row: pass 3 walks the children in order; in LTR a
\* child's content_left is the sum of the margin boxes of the preceding
\* children plus its margin_left, and in RTL it is the row width computed by
\* the row procedure minus (the sum of the margin boxes of the preceding
\* children + its margin_right + its content_width). For two children without
\* margins of explicit widths 10 and 20 in a row of width 30 this gives 0 and
\* 10 in LTR, 20 and 0 in RTL.
RowPlacement ==
    LaidOut =>
        \A n \in Nodes :
            IsRow(n) =>
                /\ \A i \in DOMAIN children[n] :
                      LET c == children[n][i]
                          before == SumBoxWidths(children[n], i - 1)
                      IN  layout[c].content_left =
                              IF style[n].text_direction = RTL
                              THEN FSub(RowWidthOf(n),
                                        Num(before + style[c].margin_right
                                            + layout[c].content_width))
                              ELSE Num(before + style[c].margin_left)
                /\ ( /\ Len(children[n]) = 2
                     /\ RowWidthOf(n) = Num(30)
                     /\ style[children[n][1]].width = <<10>>
                     /\ style[children[n][2]].width = <<20>>
                     /\ BoxWidth(children[n][1]) = 10
                     /\ BoxWidth(children[n][2]) = 20 )
                   => LET A == layout[children[n][1]].content_left
                          B == layout[children[n][2]].content_left
                      IN  IF style[n].text_direction = RTL
                          THEN A = Num(20) /\ B = Num(0)
                          ELSE A = Num(0) /\ B = Num(10)

\* The RTL row of the example: widths 10 and 20 in a row of width 30, placed
\* at 20 and 0.
RowPlacementWitness ==
    /\ LaidOut
    /\ \E n \in Nodes :
          /\ IsRow(n)
          /\ style[n].text_direction = RTL
          /\ Len(children[n]) = 2
          /\ RowWidthOf(n) = Num(30)
          /\ style[children[n][1]].width = <<10>>
          /\ style[children[n][2]].width = <<20>>
          /\ BoxWidth(children[n][1]) = 10
          /\ BoxWidth(children[n][2]) = 20
          /\ layout[children[n][1]].content_left = Num(20)
          /\ layout[children[n][2]].content_left = Num(0)

\* floor of a fraction.
Floor(f) ==
    f[1] \div f[2]

\* C7. Column cross-axis alignment: with extra = column width - (child
\* content_width + margin_left + margin_right), a child's content_left is
\* extra + margin_left when the column's (text_direction, align_items) is
\* (LTR, END) or (RTL, START), floor(extra / 2) + margin_left when align_items
\* is CENTER, and margin_left in every other case. A child's content_top is
\* the sum of the margin boxes of the preceding children plus its margin_top,
\* whatever the text direction.
ColumnAlignment ==
    LaidOut =>
        \A n \in Nodes :
            IsColumn(n) =>
                \A i \in DOMAIN children[n] :
                    LET c == children[n][i]
                        extra == FSub(ColumnWidthOf(n), Num(BoxWidth(c)))
                        a == AlignItems(style[n])
                        td == style[n].text_direction
                    IN  /\ layout[c].content_left =
                               IF (td = LTR /\ a = END) \/ (td = RTL /\ a = START)
                               THEN FAdd(extra, Num(style[c].margin_left))
                               ELSE IF a = CENTER
                                    THEN Num(Floor(FDiv(extra, Num(2)))
                                             + style[c].margin_left)
                                    ELSE Num(style[c].margin_left)
                        /\ layout[c].content_top =
                               Num(SumBoxHeights(children[n], i - 1)
                                   + style[c].margin_top)

\* An RTL column aligning START that puts a narrower child at a positive
\* extra, below a first child.
ColumnAlignmentWitness ==
    /\ LaidOut
    /\ \E n \in Nodes :
          /\ IsColumn(n)
          /\ style[n].text_direction = RTL
          /\ AlignItems(style[n]) = START
          /\ Len(children[n]) >= 2
          /\ LET c == children[n][2]
             IN  /\ FLess(Num(BoxWidth(c)), ColumnWidthOf(n))
                 /\ layout[c].content_left =
                        FAdd(FSub(ColumnWidthOf(n), Num(BoxWidth(c))),
                             Num(style[c].margin_left))
                 /\ FLess(Num(0), layout[c].content_top)

\* C8. No overlap along the main axis: for two consecutive children c1, c2 of
\* a node, in a column c1.content_top + c1.content_height <= c2.content_top,
\* in an LTR row c1.content_left + c1.content_width <= c2.content_left, and in
\* an RTL row c2.content_left + c2.content_width <= c1.content_left.
NoMainAxisOverlap ==
    LaidOut =>
        \A n \in Nodes :
            \A i \in 1..(Len(children[n]) - 1) :
                LET c1 == layout[children[n][i]]
                    c2 == layout[children[n][i + 1]]
                IN  IF style[n].direction = COLUMN
                    THEN FLeq(FAdd(c1.content_top, Num(c1.content_height)),
                              c2.content_top)
                    ELSE IF style[n].text_direction = RTL
                         THEN FLeq(FAdd(c2.content_left, Num(c2.content_width)),
                                   c1.content_left)
                         ELSE FLeq(FAdd(c1.content_left, Num(c1.content_width)),
                                   c2.content_left)

\* Children with content that together overflow their parent's explicit size
\* on its main axis.
Overflows(n) ==
    /\ Len(children[n]) >= 2
    /\ IF style[n].direction = COLUMN
       THEN /\ style[n].height # NONE
            /\ \A i \in DOMAIN children[n] : layout[children[n][i]].content_height > 0
            /\ SumBoxHeights(children[n], Len(children[n])) > style[n].height[1]
       ELSE /\ style[n].width # NONE
            /\ \A i \in DOMAIN children[n] : layout[children[n][i]].content_width > 0
            /\ SumBoxWidths(children[n], Len(children[n])) > style[n].width[1]

NoMainAxisOverlapWitness ==
    /\ LaidOut
    /\ \E n \in Nodes :
          IsRow(n) /\ style[n].text_direction = RTL /\ Overflows(n)

\* C9. Negative space is clamped: whatever the viewport and the allocations
\* reached during the recursion, every node ends with content_width,
\* content_height, min_content_width and min_content_height all >= 0.
SizesNonNegative ==
    LaidOut =>
        \A n \in Nodes :
            /\ layout[n].content_width >= 0
            /\ layout[n].content_height >= 0
            /\ layout[n].min_content_width >= 0
            /\ layout[n].min_content_height >= 0

\* A node laid out with a negative allocation, and a node laid out with a
\* positive allocation smaller than its margins.
SizesNonNegativeWitness ==
    /\ LaidOut
    /\ \E n \in Nodes :
          /\ calls[n] # <<>>
          /\ \/ FLess(calls[n][1].alloc_width, Num(0))
             \/ FLess(calls[n][1].alloc_height, Num(0))
    /\ \E n \in Nodes :
          /\ calls[n] # <<>>
          /\ FLess(Num(0), calls[n][1].alloc_width)
          /\ FLess(calls[n][1].alloc_width,
                   Num(style[n].margin_left + style[n].margin_right))

\* The LayoutResults a layout of the tree produces from freshly constructed
\* ones.
FreshLayout(vp) ==
    LayoutRoot([n \in Nodes |-> EmptyBox], vp).lay

\* C10. Idempotence: after two layouts in a row with the same viewport every
\* node's LayoutResult is the one the first call left; and the results of a
\* layout never depend on the values a previous layout left: they are those
\* of a layout of a freshly constructed tree.
Idempotence ==
    /\ (numLayouts >= 2 /\ viewport = prevViewport) => layout = prevLayout
    /\ LaidOut => layout = FreshLayout(viewport)

\* A second layout with the same viewport of a tree with a flex child that
\* the first layout gave a size.
IdempotenceWitness ==
    /\ numLayouts >= 2
    /\ viewport = prevViewport
    /\ layout = prevLayout
    /\ \E n \in Nodes :
          \E i \in DOMAIN children[n] :
              /\ style[children[n][i]].flex > 0
              /\ layout[children[n][i]].content_width > 0
              /\ layout[children[n][i]].content_height > 0

\* C11. Frame: a layout() call changes no node's style record, intrinsic size
\* or child list, and no applicator; what it writes are the LayoutResults of
\* the nodes of the tree.
LayoutFrame ==
    [][(numLayouts' # numLayouts) =>
           /\ style' = style
           /\ intrinsic' = intrinsic
           /\ children' = children
           /\ applicator' = applicator
           /\ DOMAIN layout' = Nodes]_vars

\* A layout that wrote LayoutResults in a tree whose root reads align_items
\* through the deprecated alignment.
LayoutFrameWitness ==
    /\ LaidOut
    /\ style[Root].alignment # Unset
    /\ \E n \in Nodes : layout[n] # EmptyBox

\* A child whose size on the main axis of its parent n is decided in pass 2:
\* no explicit size, a flex weight, and no intrinsic size or a flexible one.
MainExplicit(n, c) ==
    IF style[n].direction = COLUMN THEN style[c].height ELSE style[c].width

MainIntrinsic(n, c) ==
    IF style[n].direction = COLUMN THEN intrinsic[c].height ELSE intrinsic[c].width

MainMargins(n, c) ==
    IF style[n].direction = COLUMN
    THEN style[c].margin_top + style[c].margin_bottom
    ELSE style[c].margin_left + style[c].margin_right

\* The allocation on the main axis of n in the k-th _layout_node call of c.
MainAlloc(n, c, k) ==
    IF style[n].direction = COLUMN
    THEN calls[c][k].alloc_height
    ELSE calls[c][k].alloc_width

DeferredFlex(n, c) ==
    /\ MainExplicit(n, c) = NONE
    /\ style[c].flex # 0
    /\ (MainIntrinsic(n, c) = NONE \/ HasValue(MainIntrinsic(n, c)))

\* The least allocation of a deferred flex child: its margins, plus its
\* intrinsic lower bound when it has one.
MinimalAlloc(n, c) ==
    IF MainIntrinsic(n, c) = NONE
    THEN MainMargins(n, c)
    ELSE MainMargins(n, c) + IntrinsicValue(MainIntrinsic(n, c))

\* C12. Totality: every layout() completes and writes a result for the root;
\* the quantum of every node with children is a number (no division by
\* zero), it is 0 whenever flex_total is 0 after pass 1 or becomes 0 in pass
\* 1a, and with a quantum of 0 the deferred flex children are laid out with
\* their minimal allocation.
Totality ==
    LaidOut =>
        /\ Len(calls[Root]) = 1
        /\ \A n \in Nodes :
              children[n] # <<>> =>
                  /\ rets[n].quantum[2] > 0
                  /\ (rets[n].flex_total = 0 => rets[n].flex_left = 0)
                  /\ (rets[n].flex_left = 0 => rets[n].quantum = Num(0))
                  /\ rets[n].quantum = Num(0) =>
                         \A i \in DOMAIN children[n] :
                             LET c == children[n][i]
                             IN  DeferredFlex(n, c) =>
                                     /\ Len(calls[c]) = 1
                                     /\ MainAlloc(n, c, 1) = Num(MinimalAlloc(n, c))

\* A node whose flex children were all removed in pass 1a, so that flex_total
\* became 0 and its deferred child got the minimal allocation.
TotalityWitness ==
    /\ LaidOut
    /\ \E n \in Nodes :
          /\ children[n] # <<>>
          /\ rets[n].flex_total > 0
          /\ rets[n].flex_left = 0
          /\ \E i \in DOMAIN children[n] :
                /\ DeferredFlex(n, children[n][i])
                /\ MainAlloc(n, children[n][i], 1) = Num(MinimalAlloc(n, children[n][i]))

\* ----------------------------------------------------------------------
\* apply()
\* ----------------------------------------------------------------------
\* The last apply() was made by a style with an applicator.
AppliedWithSink ==
    applied.node \in Nodes /\ applicator[applied.node]

\* The properties apply() has a single-purpose callback for.
SignalledProperties ==
    {"text_align", "color", "background_color", "visibility"} \cup FontProperties

\* C13. Refresh on other property changes: a style with an applicator that
\* applies a change to a property other than text alignment, color, background
\* color, visibility or a font property calls the sink's refresh(), and
\* a style with no applicator calls nothing.
RefreshOnOtherProperties ==
    applied.node \in Nodes =>
        /\ (applicator[applied.node] /\ applied.prop \notin SignalledProperties)
               => sink = << Call("refresh", NONE) >>
        /\ ~applicator[applied.node] => sink = <<>>

\* The nodes below n in the widget tree.
RECURSIVE Descendants(_)
Descendants(n) ==
    UNION {{children[n][i]} \cup Descendants(children[n][i]) : i \in DOMAIN children[n]}

\* C14. Effective visibility: a style with an applicator that applies
\* visibility v calls set_hidden exactly once, with TRUE exactly when v is
\* HIDDEN or some ancestor of the node, at any distance, has a hidden style.
EffectiveVisibility ==
    (AppliedWithSink /\ applied.prop = "visibility") =>
        sink = << Call("set_hidden",
                       \/ applied.value = HIDDEN
                       \/ \E p \in Nodes : /\ applied.node \in Descendants(p)
                                           /\ style[p].visibility = HIDDEN) >>

\* A visible node under a visible parent and a hidden grandparent is made
\* visible: the sink is told to hide it.
EffectiveVisibilityWitness ==
    /\ AppliedWithSink
    /\ applied.prop = "visibility"
    /\ applied.value = VISIBLE
    /\ HasParent(applied.node)
    /\ ~Hidden(Parent(applied.node))
    /\ HasParent(Parent(applied.node))
    /\ Hidden(Parent(Parent(applied.node)))
    /\ sink = << Call("set_hidden", TRUE) >>

\* ----------------------------------------------------------------------
\* Intrinsic sizes
\* ----------------------------------------------------------------------
LastCall(n) ==
    calls[n][Len(calls[n])]

\* The allocation of the last call less the margins, not below 0.
AllocLessMarginsWidth(n) ==
    FMax(Num(0), FSub(LastCall(n).alloc_width,
                      Num(style[n].margin_left + style[n].margin_right)))

AllocLessMarginsHeight(n) ==
    FMax(Num(0), FSub(LastCall(n).alloc_height,
                      Num(style[n].margin_top + style[n].margin_bottom)))

IntrinsicWidthLeaf(n) ==
    IsLeaf(n) /\ calls[n] # <<>> /\ style[n].width = NONE /\ intrinsic[n].width # NONE

IntrinsicHeightLeaf(n) ==
    IsLeaf(n) /\ calls[n] # <<>> /\ style[n].height = NONE /\ intrinsic[n].height # NONE

\* C15 as stated. Intrinsic size is a lower bound: a childless node with no
\* explicit width and an intrinsic width I, fixed or flexible, ends with
\* content_width = max(max(0, alloc_width - margins), I) (read here up to
\* the truncation to an integer) and min_content_width = I; the same for
\* the height.
IntrinsicLowerBoundFixedOrFlexible ==
    LaidOut =>
        \A n \in Nodes :
            /\ IntrinsicWidthLeaf(n) =>
                  /\ layout[n].content_width =
                        ToInt(FMax(AllocLessMarginsWidth(n),
                                   Num(IntrinsicValue(intrinsic[n].width))))
                  /\ layout[n].min_content_width = IntrinsicValue(intrinsic[n].width)
            /\ IntrinsicHeightLeaf(n) =>
                  /\ layout[n].content_height =
                        ToInt(FMax(AllocLessMarginsHeight(n),
                                   Num(IntrinsicValue(intrinsic[n].height))))
                  /\ layout[n].min_content_height = IntrinsicValue(intrinsic[n].height)

\* C15. Intrinsic size: a childless node with no explicit width and an
\* intrinsic width I ends with min_content_width = I, and with content_width
\* = I when the intrinsic width is fixed, and the integer part of
\* max(max(0, alloc_width - margins), I) when it is flexible; the same for
\* the height.
IntrinsicLowerBound ==
    LaidOut =>
        \A n \in Nodes :
            /\ IntrinsicWidthLeaf(n) =>
                  /\ layout[n].content_width =
                        IF HasValue(intrinsic[n].width)
                        THEN ToInt(FMax(AllocLessMarginsWidth(n),
                                        Num(IntrinsicValue(intrinsic[n].width))))
                        ELSE IntrinsicValue(intrinsic[n].width)
                  /\ layout[n].min_content_width = IntrinsicValue(intrinsic[n].width)
            /\ IntrinsicHeightLeaf(n) =>
                  /\ layout[n].content_height =
                        IF HasValue(intrinsic[n].height)
                        THEN ToInt(FMax(AllocLessMarginsHeight(n),
                                        Num(IntrinsicValue(intrinsic[n].height))))
                        ELSE IntrinsicValue(intrinsic[n].height)
                  /\ layout[n].min_content_height = IntrinsicValue(intrinsic[n].height)

\* A leaf of fixed intrinsic width allocated more than that width keeps it,
\* and a leaf of flexible intrinsic width allocated more grows.
IntrinsicLowerBoundWitness ==
    /\ LaidOut
    /\ \E n \in Nodes :
          /\ IntrinsicWidthLeaf(n)
          /\ ~HasValue(intrinsic[n].width)
          /\ FLess(Num(IntrinsicValue(intrinsic[n].width)), AllocLessMarginsWidth(n))
          /\ layout[n].content_width = IntrinsicValue(intrinsic[n].width)
    /\ \E n \in Nodes :
          /\ IntrinsicWidthLeaf(n)
          /\ HasValue(intrinsic[n].width)
          /\ layout[n].content_width > IntrinsicValue(intrinsic[n].width)

\* ----------------------------------------------------------------------
\* Children with a flexible intrinsic size
\* ----------------------------------------------------------------------
\* c is a child of the row n with no explicit width and a flexible intrinsic
\* width.
FlexibleIntrinsicRowChild(n, c) ==
    /\ IsRow(n)
    /\ \E i \in DOMAIN children[n] : children[n][i] = c
    /\ style[c].width = NONE
    /\ HasValue(intrinsic[c].width)

\* C16 as stated. Flexible-intrinsic asymmetry: a row child with no explicit
\* width and a flexible intrinsic width is laid out once, in pass 1 (which
\* calls with use_all_width false), with remaining_width as its allocation,
\* whatever its flex weight is.
FlexibleIntrinsicInPass1 ==
    LaidOut =>
        \A n \in Nodes : \A c \in Nodes :
            FlexibleIntrinsicRowChild(n, c) =>
                /\ Len(calls[c]) = 1
                /\ ~calls[c][1].use_all_width
                /\ calls[c][1].alloc_width = rets[c].remaining_before

\* C16. A row child with no explicit width and a flexible intrinsic width is
\* laid out exactly once: with no flex weight in pass 1 (use_all_width
\* false) with an allocation of 0, and with a flex weight in pass 2
\* (use_all_width true) with the larger of its minimal margin box and
\* quantum * flex, so that a childless one ends as wide as its intrinsic
\* value in the first case and as wide as its allocation lets it grow in the
\* second.
FlexibleIntrinsicLayout ==
    LaidOut =>
        \A n \in Nodes : \A c \in Nodes :
            FlexibleIntrinsicRowChild(n, c) =>
                /\ Len(calls[c]) = 1
                /\ style[c].flex = 0 =>
                      /\ ~calls[c][1].use_all_width
                      /\ calls[c][1].alloc_width = Num(0)
                      /\ IsLeaf(c) =>
                            layout[c].content_width = IntrinsicValue(intrinsic[c].width)
                /\ style[c].flex # 0 =>
                      /\ calls[c][1].use_all_width
                      /\ calls[c][1].alloc_width =
                            FMax(Num(MinimalAlloc(n, c)),
                                 FMul(rets[n].quantum, Num(style[c].flex)))
                      /\ IsLeaf(c) =>
                            layout[c].content_width =
                                ToInt(FMax(AllocLessMarginsWidth(c),
                                           Num(IntrinsicValue(intrinsic[c].width))))

\* A row with a flex child of flexible intrinsic width that pass 2 made wider
\* than its intrinsic value.
FlexibleIntrinsicLayoutWitness ==
    /\ LaidOut
    /\ \E n \in Nodes : \E c \in Nodes :
          /\ FlexibleIntrinsicRowChild(n, c)
          /\ style[c].flex # 0
          /\ IsLeaf(c)
          /\ calls[c][1].use_all_width
          /\ layout[c].content_width > IntrinsicValue(intrinsic[c].width)

\* ----------------------------------------------------------------------
\* Pass 1: the remaining space
\* ----------------------------------------------------------------------
\* The content size of c on the main axis of its parent n.
MainContent(n, c) ==
    IF style[n].direction = COLUMN
    THEN layout[c].content_height
    ELSE layout[c].content_width

\* What pass 1 of n took off the remaining space when it went over c.
Pass1Taken(c) ==
    FSub(rets[c].remaining_before, rets[c].remaining_after)

\* C17 as stated. Pass-1 bookkeeping: a deferred flex child with no intrinsic
\* size on the main axis leaves the remaining space unchanged, whatever its
\* margins are; a deferred flex child with a flexible intrinsic size takes
\* its margins plus its intrinsic value; a child resolved in pass 1 takes
\* its full margin box.
Pass1Bookkeeping ==
    LaidOut =>
        \A n \in Nodes : \A i \in DOMAIN children[n] :
            LET c == children[n][i]
            IN  Pass1Taken(c) =
                    IF DeferredFlex(n, c)
                    THEN IF MainIntrinsic(n, c) = NONE
                         THEN Num(0)
                         ELSE Num(MainMargins(n, c) + IntrinsicValue(MainIntrinsic(n, c)))
                    ELSE Num(MainMargins(n, c) + MainContent(n, c))

\* ----------------------------------------------------------------------
\* Pass 1a: overflow removal
\* ----------------------------------------------------------------------
\* remaining_width (remaining_height) of n at the end of its pass 1.
RemainingAfterPass1(n) ==
    rets[children[n][Len(children[n])]].remaining_after

\* min_flex of n at the end of its pass 1: the minimal margin boxes of the
\* deferred flex children with a flexible intrinsic size, up to the i-th.
RECURSIVE MinFlexUpTo(_, _)
MinFlexUpTo(n, i) ==
    IF i = 0 THEN 0
    ELSE MinFlexUpTo(n, i - 1)
         + (IF DeferredFlex(n, children[n][i]) /\ MainIntrinsic(n, children[n][i]) # NONE
            THEN MinimalAlloc(n, children[n][i]) ELSE 0)

\* The quantum before any removal.
QuantumBeforeRemoval(n) ==
    FDiv(FAdd(RemainingAfterPass1(n), Num(MinFlexUpTo(n, Len(children[n])))),
         Num(rets[n].flex_total))

\* A flex child whose flexible intrinsic lower bound is more than its share
\* of the quantum before removal.
Overflowing(n, c) ==
    /\ style[c].flex # 0
    /\ HasValue(MainIntrinsic(n, c))
    /\ FLess(FMul(QuantumBeforeRemoval(n), Num(style[c].flex)),
             Num(IntrinsicValue(MainIntrinsic(n, c))))

\* The flex weights, and the minimal margin boxes, of the overflowing
\* children of n up to the i-th.
RECURSIVE RemovedFlexUpTo(_, _)
RemovedFlexUpTo(n, i) ==
    IF i = 0 THEN 0
    ELSE RemovedFlexUpTo(n, i - 1)
         + (IF Overflowing(n, children[n][i]) THEN style[children[n][i]].flex ELSE 0)

RECURSIVE RemovedMinFlexUpTo(_, _)
RemovedMinFlexUpTo(n, i) ==
    IF i = 0 THEN 0
    ELSE RemovedMinFlexUpTo(n, i - 1)
         + (IF Overflowing(n, children[n][i]) THEN MinimalAlloc(n, children[n][i]) ELSE 0)

\* The quantum recomputed from the totals the removal left.
QuantumAfterRemoval(n) ==
    IF rets[n].flex_left > 0
    THEN FDiv(FAdd(RemainingAfterPass1(n),
                   Num(MinFlexUpTo(n, Len(children[n]))
                       - RemovedMinFlexUpTo(n, Len(children[n])))),
              Num(rets[n].flex_left))
    ELSE Num(0)

NoHorizontalMargins(n) ==
    \A i \in DOMAIN children[n] :
        style[children[n][i]].margin_left = 0 /\ style[children[n][i]].margin_right = 0

\* C19 as stated. RTL mirrors LTR within the final content box: in an RTL
\* row whose children have no horizontal margins, every child is at
\* content_left = row.content_width - L - child.content_width, L being the
\* content_left the same tree gives the child in LTR, which is the sum of
\* the widths of the children before it.
RTLMirrorsInContentBox ==
    LaidOut =>
        \A n \in Nodes :
            (IsRow(n) /\ style[n].text_direction = RTL /\ NoHorizontalMargins(n)) =>
                \A i \in DOMAIN children[n] :
                    layout[children[n][i]].content_left =
                        Num(layout[n].content_width
                            - SumBoxWidths(children[n], i - 1)
                            - layout[children[n][i]].content_width)

\* ----------------------------------------------------------------------
\* The order of the writes
\* ----------------------------------------------------------------------
\* The k-th write of the last layout() writes the sizes of n.
WritesSize(k, n) ==
    writes[k] = <<"size", n>>

\* The k-th write of the last layout() writes a position of n.
WritesPosition(k, n) ==
    writes[k] = <<"left", n>> \/ writes[k] = <<"top", n>>

\* C20. Bottom-up finalization order: within one layout(), the sizes of a
\* node are written only after the sizes of every one of its children have
\* been written, and a position of a node is written only after its sizes,
\* which are not written again afterwards.
BottomUpOrder ==
    LaidOut =>
        \A k \in DOMAIN writes : \A n \in Nodes :
            /\ WritesSize(k, n) =>
                  \A i \in DOMAIN children[n] :
                      \E j \in 1..(k - 1) : WritesSize(j, children[n][i])
            /\ WritesPosition(k, n) =>
                  /\ \E j \in 1..(k - 1) : WritesSize(j, n)
                  /\ \A j \in (k + 1)..Len(writes) : ~WritesSize(j, n)

\* A container inside a container: a grandchild laid out in pass 2 of its
\* row, sized and then placed before the row itself is sized, and the row
\* placed before the root is sized.
BottomUpOrderWitness ==
    /\ LaidOut
    /\ \E n \in Nodes : \E c \in Nodes : \E g \in Nodes :
          /\ \E i \in DOMAIN children[n] : children[n][i] = c
          /\ \E i \in DOMAIN children[c] : children[c][i] = g
          /\ IsRow(c)
          /\ calls[g][1].use_all_width
          /\ \E k1, k2, k3, k4, k5 \in DOMAIN writes :
                /\ k1 < k2 /\ k2 < k3 /\ k3 < k4 /\ k4 < k5
                /\ WritesSize(k1, g)
                /\ WritesPosition(k2, g)
                /\ WritesSize(k3, c)
                /\ WritesPosition(k4, c)
                /\ WritesSize(k5, n)

\* ----------------------------------------------------------------------
\* align_items and alignment
\* ----------------------------------------------------------------------
\* The last change was op on the property name of node n.
Changed(n, op, name) ==
    changed.node = n /\ changed.op = op /\ changed.name = name

\* The style record s with align_items a and alignment b stored.
Paired(s, a, b) ==
    [s EXCEPT !.align_items = a, !.alignment = b]

\* C21. alignment / align_items exclusivity: whatever properties have been
\* set and deleted, by attribute or by item, a style never stores both
\* align_items and alignment; a set of one leaves the other unset (and
\* stores the value when the property accepts it), a delete of either
\* leaves both unset; and reading the one that is not stored gives None or
\* a keyword of that property which, stored in its turn, reads back as the
\* stored one.
Exclusivity ==
    \A n \in Nodes :
        LET s == style[n]
        IN  /\ ~(s.align_items # Unset /\ s.alignment # Unset)
            /\ Changed(n, "set", ALIGN_ITEMS) =>
                  /\ s.alignment = Unset
                  /\ changed.value \in Choices(ALIGN_ITEMS) => s.align_items = changed.value
            /\ Changed(n, "set", ALIGNMENT) =>
                  /\ s.align_items = Unset
                  /\ changed.value \in Choices(ALIGNMENT) => s.alignment = changed.value
            /\ (Changed(n, "del", ALIGN_ITEMS) \/ Changed(n, "del", ALIGNMENT)) =>
                  s.align_items = Unset /\ s.alignment = Unset
            /\ s.align_items # Unset =>
                  /\ AlignItems(s) = s.align_items
                  /\ Alignment(s) \in Choices(ALIGNMENT)
                  /\ AlignItems(Paired(s, Unset, Alignment(s))) = s.align_items
            /\ s.alignment # Unset =>
                  /\ Alignment(s) = s.alignment
                  /\ AlignItems(s) \in Choices(ALIGN_ITEMS) \cup {Unset}
                  /\ AlignItems(s) # Unset =>
                         Alignment(Paired(s, AlignItems(s), Unset)) = s.alignment
            /\ (s.align_items = Unset /\ s.alignment = Unset) =>
                  AlignItems(s) = Unset /\ Alignment(s) = Unset

\* A style that stored alignment has had align_items set by item syntax:
\* alignment is no longer stored and reads as the keyword derived from
\* align_items.
ExclusivityWitness ==
    \E n \in Nodes :
        /\ Changed(n, "set", ALIGN_ITEMS)
        /\ changed.value = END
        /\ style[n].align_items = END
        /\ style[n].alignment = Unset
        /\ style[n].direction = COLUMN
        /\ style[n].text_direction = RTL
        /\ Alignment(style[n]) = LEFT
        /\ LaidOut

\* ----------------------------------------------------------------------
\* Flex distribution
\* ----------------------------------------------------------------------
\* A childless child of n that has an explicit size on the main axis of n,
\* or a flex weight and no fixed intrinsic size on that axis.
SizedOrFlexLeaf(n, c) ==
    /\ IsLeaf(c)
    /\ \/ MainExplicit(n, c) # NONE
       \/ DeferredFlex(n, c)

\* The least margin box of such a child: its margins plus its explicit size,
\* its intrinsic lower bound, or 0.
MinimumBox(n, c) ==
    MainMargins(n, c)
    + (IF MainExplicit(n, c) # NONE THEN MainExplicit(n, c)[1]
       ELSE IF MainIntrinsic(n, c) # NONE THEN IntrinsicValue(MainIntrinsic(n, c))
       ELSE 0)

RECURSIVE SumMinimumBoxes(_, _)
SumMinimumBoxes(n, k) ==
    IF k = 0 THEN 0 ELSE SumMinimumBoxes(n, k - 1) + MinimumBox(n, children[n][k])

\* The space the children procedure of n was given on its main axis, and
\* what the margin boxes of its children cover of it.
MainAvailable(n) ==
    IF style[n].direction = COLUMN THEN AvailableHeightOf(n) ELSE AvailableWidthOf(n)

MainCovered(n) ==
    IF style[n].direction = COLUMN
    THEN SumBoxHeights(children[n], Len(children[n]))
    ELSE SumBoxWidths(children[n], Len(children[n]))

\* C22. Flex distribution does not overflow when the minimums fit: in a row
\* or column of childless children that each have an explicit main-axis size
\* or a flex weight with a flexible or no intrinsic size, when the least
\* margin boxes of the children fit the available space together, the
\* margin boxes of the children after layout fit it too.
FlexFitsWhenMinimumsFit ==
    LaidOut =>
        \A n \in Nodes :
            ( /\ children[n] # <<>>
              /\ \A i \in DOMAIN children[n] : SizedOrFlexLeaf(n, children[n][i])
              /\ FLeq(Num(SumMinimumBoxes(n, Len(children[n]))), MainAvailable(n)) )
            => FLeq(Num(MainCovered(n)), MainAvailable(n))

\* ----------------------------------------------------------------------
\* The number of _layout_node calls
\* ----------------------------------------------------------------------
\* The one call of c was made by pass 2 of its parent n, which is the pass
\* that calls with the use-all flag of its main axis set.
InPass2(n, c) ==
    IF style[n].direction = COLUMN
    THEN calls[c][1].use_all_height
    ELSE calls[c][1].use_all_width

\* The number of times the sizes of n were written in the last layout().
RECURSIVE SizeWritesUpTo(_, _)
SizeWritesUpTo(n, k) ==
    IF k = 0 THEN 0
    ELSE SizeWritesUpTo(n, k - 1) + (IF WritesSize(k, n) THEN 1 ELSE 0)

\* C23. Each node is laid out exactly once: in one layout() every node gets
\* exactly one _layout_node call and its sizes are written once; a child is
\* called by pass 2 of its parent when it has no explicit main-axis size, a
\* flex weight and no fixed intrinsic size, and by pass 1 otherwise.
LaidOutOnce ==
    LaidOut =>
        \A n \in Nodes :
            /\ Len(calls[n]) = 1
            /\ SizeWritesUpTo(n, Len(writes)) = 1
            /\ \A i \in DOMAIN children[n] :
                  InPass2(n, children[n][i]) <=> DeferredFlex(n, children[n][i])

\* A container with a flex child of fixed intrinsic size, which pass 2 goes
\* over without laying it out, next to a child that pass 2 lays out.
LaidOutOnceWitness ==
    /\ LaidOut
    /\ \E n \in Nodes : \E i, j \in DOMAIN children[n] :
          /\ style[children[n][i]].flex # 0
          /\ MainExplicit(n, children[n][i]) = NONE
          /\ MainIntrinsic(n, children[n][i]) # NONE
          /\ ~HasValue(MainIntrinsic(n, children[n][i]))
          /\ Len(calls[children[n][i]]) = 1
          /\ ~InPass2(n, children[n][i])
          /\ InPass2(n, children[n][j])

\* ----------------------------------------------------------------------
\* Children and the content box of their parent
\* ----------------------------------------------------------------------
\* The margin box of c lies within 0..width (0..height) of its parent's
\* content box.
InsideHorizontally(c, width) ==
    /\ FLeq(Num(style[c].margin_left), layout[c].content_left)
    /\ FLeq(FAdd(layout[c].content_left,
                 Num(layout[c].content_width + style[c].margin_right)),
            Num(width))

InsideVertically(c, height) ==
    /\ FLeq(Num(style[c].margin_top), layout[c].content_top)
    /\ FLeq(FAdd(layout[c].content_top,
                 Num(layout[c].content_height + style[c].margin_bottom)),
            Num(height))

\* C24. Children stay inside an auto-sized parent: after layout, the margin
\* box of every child of a node with no explicit width lies horizontally
\* inside the node's content box, and that of every child of a node with no
\* explicit height lies vertically inside it.
ChildrenInside ==
    LaidOut =>
        \A n \in Nodes : \A i \in DOMAIN children[n] :
            /\ style[n].width = NONE =>
                  InsideHorizontally(children[n][i], layout[n].content_width)
            /\ style[n].height = NONE =>
                  InsideVertically(children[n][i], layout[n].content_height)

====
